---------------------------- MODULE Spec2Model ----------------------------
(* pg_plan_watch: the four executor hooks of src/pg_plan_watch.c, the     *)
(* nesting counter they keep, the gate macro pg_plan_watch_enabled() and  *)
(* the report produced by the ExecutorEnd hook.                           *)
(*                                                                        *)
(* The backend is one thread of control.  The engine calls the four hooks *)
(* on query descriptors; a hook's delegated Run or Finish handler may     *)
(* itself start, run and end further statements, so the Run and Finish    *)
(* hooks are split into an entry and an exit step with a call stack in    *)
(* between.  The Start and End hooks are single steps.                    *)
(*                                                                        *)
(* Not modelled: log_verbose, log_settings, log_level and                 *)
(* log_parameter_max_length.  The hooks copy them unchanged into the      *)
(* ExplainState or ereport() and take no decision on them.                *)
EXTENDS Integers, Sequences, FiniteSets, TLC

(* ------------------------------ bounds ------------------------------- *)

\* Number of query descriptors alive at once (and so the deepest nesting).
MaxQD == 2

\* Largest elapsed time, in msec, an accumulator can hold.
MaxTotal == 1

\* Largest value of log_min_duration explored (msec); -1 is the sentinel.
MaxDuration == 1

\* Longest text the renderer leaves in es->str, in characters.
MaxLen == 3

QD == 1..MaxQD

(* ----------------------------- constants ----------------------------- *)

INSTRUMENT_TIMER == "INSTRUMENT_TIMER"
INSTRUMENT_ROWS == "INSTRUMENT_ROWS"
INSTRUMENT_BUFFERS == "INSTRUMENT_BUFFERS"
INSTRUMENT_WAL == "INSTRUMENT_WAL"

format_options ==
    {"EXPLAIN_FORMAT_TEXT", "EXPLAIN_FORMAT_XML",
     "EXPLAIN_FORMAT_JSON", "EXPLAIN_FORMAT_YAML"}

GUCNames ==
    {"log_min_duration", "log_analyze", "log_buffers", "log_wal",
     "log_triggers", "log_timing", "log_format", "log_nested_statements"}

\* The GUCs read by the hooks, with the ranges _PG_init registers.
GUCDomain(g) ==
    CASE g = "log_min_duration" -> (-1)..MaxDuration
      [] g = "log_format" -> format_options
      [] OTHER -> BOOLEAN

\* instrument_options a caller of CreateQueryDesc may pass in.
EntryOptions == {{}, {INSTRUMENT_BUFFERS}}

\* queryDesc->totaltime == NULL
NULL == [alloc |-> "NULL", counter |-> 0, total |-> 0]

\* What InstrAlloc returns to the function `by`: zeroed counters.
InstrAlloc(by) == [alloc |-> by, counter |-> 0, total |-> 0]

\* The characters of a rendered text: the line break and any other one.
LineBreak == "\n"

Chars == {"x", LineBreak}

RECURSIVE TextsOfLen(_)
TextsOfLen(n) ==
    IF n = 0 THEN {<<>>}
    ELSE {Append(t, c) : t \in TextsOfLen(n - 1), c \in Chars}

\* What ExplainEndOutput can leave in es->str, up to MaxLen characters.
RenderedTexts == UNION {TextsOfLen(n) : n \in 0..MaxLen}

\* A plan line with its line break, the text-format output.
PlainText == <<"x", LineBreak>>

\* What a write past the buffer can do to the backend: crash it, or leave
\* a string that ends at the next zero byte, at once or after stray bytes.
UndefinedOutcomes == {"crash", "terminated", "unterminated"}

\* A query descriptor slot that holds no descriptor.
NoQueryDesc ==
    [state |-> "free", instrument_options |-> {}, totaltime |-> NULL,
     enabled_at_start |-> FALSE, level_at_start |-> 0]

\* No hook invocation has just completed.
NoLast ==
    [op |-> "none", qd |-> 0, result |-> "none", entry_level |-> 0,
     gates |-> <<>>, calls |-> <<>>, steps |-> <<>>, msgs |-> <<>>,
     desc |-> NoQueryDesc, rendered |-> <<>>, touched |-> {},
     explain_only |-> FALSE, seen |-> {}, attached |-> FALSE,
     raised |-> FALSE]

(* ----------------------------- variables ----------------------------- *)

VARIABLES
    pg_plan_watch,        \* the GUC variables, by name
    nesting_level,        \* static int nesting_level
    prev_ExecutorStart,   \* saved hook values: "NULL" or "prior"
    prev_ExecutorRun,
    prev_ExecutorFinish,
    prev_ExecutorEnd,
    queryDesc,            \* the live QueryDesc structs
    stack,                \* Run/Finish hook invocations in progress
    last                  \* what the last completed hook invocation did

vars ==
    <<pg_plan_watch, nesting_level, prev_ExecutorStart, prev_ExecutorRun,
      prev_ExecutorFinish, prev_ExecutorEnd, queryDesc, stack, last>>

hooks ==
    <<prev_ExecutorStart, prev_ExecutorRun, prev_ExecutorFinish,
      prev_ExecutorEnd>>

(* ------------------------------ helpers ------------------------------ *)

\* A gate that forgets the disabled sentinel.
pg_plan_watch_enabledNoSentinel ==
    nesting_level = 0 \/ pg_plan_watch.log_nested_statements

\* #define pg_plan_watch_enabled()
pg_plan_watch_enabled ==
    /\ pg_plan_watch.log_min_duration >= 0
    /\ (nesting_level = 0 \/ pg_plan_watch.log_nested_statements)

\* A hook that calls the saved handler and then the built-in one as well.
NextHandlerBoth(prev, prevName, standardName) ==
    IF prev # "NULL" THEN <<prevName, standardName>> ELSE <<standardName>>

\* if (prev_X) prev_X(...); else standard_X(...);
NextHandler(prev, prevName, standardName) ==
    IF prev # "NULL" THEN <<prevName>> ELSE <<standardName>>

\* The three places the hooks evaluate the macro: on entry to the Start
\* hook, after its delegated call, and on entry to the End hook.
EnabledAtStartEntry == pg_plan_watch_enabled

\* A second test in the Start hook that looks at the threshold alone.
EnabledAfterStartAnyLevel == pg_plan_watch.log_min_duration >= 0

EnabledAfterStart == pg_plan_watch_enabled

\* An End hook that looks at the threshold alone.
EnabledAtEndAnyLevel == pg_plan_watch.log_min_duration >= 0

EnabledAtEnd == pg_plan_watch_enabled

\* A |= block that asks for row counts whether or not it asks for timing.
StartInstrumentOptionsRowsToo(options, explain_only) ==
    IF EnabledAtStartEntry
       /\ pg_plan_watch.log_analyze /\ ~explain_only
    THEN options
         \cup {INSTRUMENT_ROWS}
         \cup (IF pg_plan_watch.log_timing THEN {INSTRUMENT_TIMER} ELSE {})
         \cup (IF pg_plan_watch.log_buffers
               THEN {INSTRUMENT_BUFFERS} ELSE {})
         \cup (IF pg_plan_watch.log_wal THEN {INSTRUMENT_WAL} ELSE {})
    ELSE options

\* A |= block that does not look at eflags.
StartInstrumentOptionsAnyFlags(options, explain_only) ==
    IF EnabledAtStartEntry /\ pg_plan_watch.log_analyze
    THEN options
         \cup (IF pg_plan_watch.log_timing
               THEN {INSTRUMENT_TIMER} ELSE {INSTRUMENT_ROWS})
         \cup (IF pg_plan_watch.log_buffers
               THEN {INSTRUMENT_BUFFERS} ELSE {})
         \cup (IF pg_plan_watch.log_wal THEN {INSTRUMENT_WAL} ELSE {})
    ELSE options

\* The |= block at the top of explain_ExecutorStart.
StartInstrumentOptions(options, explain_only) ==
    IF EnabledAtStartEntry
       /\ pg_plan_watch.log_analyze /\ ~explain_only
    THEN options
         \cup (IF pg_plan_watch.log_timing
               THEN {INSTRUMENT_TIMER} ELSE {INSTRUMENT_ROWS})
         \cup (IF pg_plan_watch.log_buffers
               THEN {INSTRUMENT_BUFFERS} ELSE {})
         \cup (IF pg_plan_watch.log_wal THEN {INSTRUMENT_WAL} ELSE {})
    ELSE options

\* An allocation block that does not ask the gate.
StartTotaltimeUngated(totaltime) ==
    IF totaltime = NULL
    THEN InstrAlloc("explain_ExecutorStart")
    ELSE totaltime

\* The allocation block at the bottom of explain_ExecutorStart.
StartTotaltime(totaltime) ==
    IF EnabledAfterStart /\ totaltime = NULL
    THEN InstrAlloc("explain_ExecutorStart")
    ELSE totaltime

\* A Start hook that allocates whatever the delegated handler returned.
StartTotaltimeAnyPlan(outcome, totaltime) == StartTotaltime(totaltime)

\* if (!plan_valid) return false; comes before the allocation block.
StartTotaltimeAfter(outcome, totaltime) ==
    IF outcome = "valid" THEN StartTotaltime(totaltime) ELSE totaltime

\* A Start hook that calls the next handler before its |= block.
OptionsAtCallUnmarked(entry, marked) == entry

\* queryDesc->instrument_options as the delegated Start handler finds it:
\* the |= block precedes the call.
OptionsAtCall(entry, marked) == marked

\* What explain_ExecutorStart does, in order: the |= block when its
\* condition holds, the delegated call, InstrAlloc when it gets there.
StartSteps(marks, handler, allocates) ==
    (IF marks THEN <<"instrument_options |=">> ELSE <<>>)
    \o handler
    \o (IF allocates THEN <<"InstrAlloc">> ELSE <<>>)

\* InstrEndLoop: fold the running counter into the total.
InstrEndLoop(instr) ==
    [instr EXCEPT !.total = instr.total + instr.counter, !.counter = 0]

\* The engine's Run handler measures into totaltime when there is one.
InstrStopNode(instr, dt) ==
    IF instr = NULL THEN instr
    ELSE [instr EXCEPT
            !.counter = IF instr.counter + dt > MaxTotal
                        THEN MaxTotal ELSE instr.counter + dt]

\* An ExplainState whose buffers and wal follow their flags alone.
ExplainStateOfFlagsAlone(options) ==
    LET analyze == options # {} /\ pg_plan_watch.log_analyze IN
    [analyze |-> analyze,
     buffers |-> pg_plan_watch.log_buffers,
     wal |-> pg_plan_watch.log_wal,
     timing |-> analyze /\ pg_plan_watch.log_timing,
     summary |-> analyze,
     costs |-> TRUE,
     format |-> pg_plan_watch.log_format]

\* The ExplainState the End hook fills in (es->costs is NewExplainState's
\* default and is never changed by the hook).
ExplainStateOf(options) ==
    LET analyze == options # {} /\ pg_plan_watch.log_analyze IN
    [analyze |-> analyze,
     buffers |-> analyze /\ pg_plan_watch.log_buffers,
     wal |-> analyze /\ pg_plan_watch.log_wal,
     timing |-> analyze /\ pg_plan_watch.log_timing,
     summary |-> analyze,
     costs |-> TRUE,
     format |-> pg_plan_watch.log_format]

\* A report block that emits the text before it post-processes it.
ReportStepsEmitFirst(es) ==
    <<"InstrEndLoop", "NewExplainState", "ExplainBeginOutput",
      "ExplainQueryText", "ExplainQueryParameters", "ExplainPrintPlan">>
    \o (IF es.analyze /\ pg_plan_watch.log_triggers
        THEN <<"ExplainPrintTriggers">> ELSE <<>>)
    \o (IF es.costs THEN <<"ExplainPrintJITSummary">> ELSE <<>>)
    \o <<"ExplainEndOutput", "ereport", "RemoveLastLineBreak">>
    \o (IF es.format = "EXPLAIN_FORMAT_JSON" THEN <<"FixJSON">> ELSE <<>>)

\* The calls the report block of explain_ExecutorEnd makes, in order.
ReportSteps(es) ==
    <<"InstrEndLoop", "NewExplainState", "ExplainBeginOutput",
      "ExplainQueryText", "ExplainQueryParameters", "ExplainPrintPlan">>
    \o (IF es.analyze /\ pg_plan_watch.log_triggers
        THEN <<"ExplainPrintTriggers">> ELSE <<>>)
    \o (IF es.costs THEN <<"ExplainPrintJITSummary">> ELSE <<>>)
    \o <<"ExplainEndOutput", "RemoveLastLineBreak">>
    \o (IF es.format = "EXPLAIN_FORMAT_JSON" THEN <<"FixJSON">> ELSE <<>>)
    \o <<"ereport">>

\* The two statements between ExplainEndOutput and ereport call nothing
\* and so raise nothing.
PostProcessing == {"RemoveLastLineBreak", "FixJSON"}

\* es->str holding text: data[0 .. len - 1] are the characters (data[i] of
\* the code is data[i + 1] here), data[len] is the terminator, and the
\* buffer is longer than that.  touched collects the indices the
\* post-processing reads or writes.
StringInfo(text) == [data |-> text, len |-> Len(text), touched |-> {}]

\* The indices of the buffer of a StringInfo that holds len characters.
InBuffer(i, len) == 0 <= i /\ i <= len

\* A strip that removes every trailing line break.
RECURSIVE RemoveAllLineBreaks(_)
RemoveAllLineBreaks(str) ==
    IF str.len > 0 /\ str.data[str.len] = LineBreak
    THEN RemoveAllLineBreaks(
             [data |-> SubSeq(str.data, 1, str.len - 1),
              len |-> str.len - 1,
              touched |-> str.touched \cup {str.len - 1}])
    ELSE [str EXCEPT !.touched =
             IF str.len > 0 THEN @ \cup {str.len - 1} ELSE @]

\* /* Remove last line break */
\* if (len > 0 && data[len - 1] == '\n') data[--len] = '\0';
RemoveLastLineBreak(str) ==
    IF str.len > 0
    THEN IF str.data[str.len] = LineBreak
         THEN [data |-> SubSeq(str.data, 1, str.len - 1),
               len |-> str.len - 1,
               touched |-> str.touched \cup {str.len - 1}]
         ELSE [str EXCEPT !.touched = @ \cup {str.len - 1}]
    ELSE str

\* /* Fix JSON to output an object */
\* data[0] = '{'; data[len - 1] = '}';  The characters are as written
\* when both writes land on characters; with len = 0 the first write
\* replaces the terminator and the second lands before the buffer.
FixJSON(str) ==
    [str EXCEPT
       !.data = IF str.len = 0 THEN @
                ELSE [[@ EXCEPT ![1] = "{"] EXCEPT ![str.len] = "}"],
       !.touched = @ \cup {0, str.len - 1}]

\* A post-processing that fixes the JSON before it strips the line break.
PostProcessFixFirst(text, format) ==
    IF format = "EXPLAIN_FORMAT_JSON"
    THEN RemoveLastLineBreak(FixJSON(StringInfo(text)))
    ELSE RemoveLastLineBreak(StringInfo(text))

\* es->str when ereport reads it.
PostProcess(text, format) ==
    LET stripped == RemoveLastLineBreak(StringInfo(text)) IN
    IF format = "EXPLAIN_FORMAT_JSON" THEN FixJSON(stripped) ELSE stripped

\* What ereport's %s reads from es->str->data: the characters up to the
\* terminator; after a write that replaced the terminator, whatever lies
\* up to the next zero byte.
EmittedText(str, ub) ==
    CASE ub = "unterminated" -> <<"{", "?">>
      [] ub = "terminated" -> <<"{">>
      [] OTHER -> str.data

\* if (queryDesc->totaltime && pg_plan_watch_enabled())
EndReports(totaltime) == totaltime # NULL /\ EnabledAtEnd

\* The message ereport() hands to the log.
Report(instr, es, text) ==
    [duration |-> instr.total, es |-> es, text |-> text]

(* ------------------------------- Init -------------------------------- *)

\* _PG_init: the GUCs take whatever the configuration files give them, the
\* saved hook values are what the slots held (nothing, or the hooks of a
\* module loaded earlier).
PriorHooks ==
    { <<"NULL", "NULL", "NULL", "NULL">>,
      <<"prior", "prior", "prior", "prior">>,
      <<"prior", "NULL", "NULL", "prior">> }

\* Every setting of the GUCs.
AllGUC ==
    [log_min_duration : (-1)..MaxDuration,
     log_analyze : BOOLEAN,
     log_buffers : BOOLEAN,
     log_wal : BOOLEAN,
     log_triggers : BOOLEAN,
     log_timing : BOOLEAN,
     log_format : format_options,
     log_nested_statements : BOOLEAN]

\* The boot values DefineCustom*Variable registers.
BootGUC ==
    [log_min_duration |-> -1,
     log_analyze |-> FALSE,
     log_buffers |-> FALSE,
     log_wal |-> FALSE,
     log_triggers |-> FALSE,
     log_timing |-> TRUE,
     log_format |-> "EXPLAIN_FORMAT_TEXT",
     log_nested_statements |-> FALSE]

\* The settings in which only the GUCs of G are away from their boot value.
Configured(G) ==
    {c \in AllGUC : \A g \in GUCNames \ G : c[g] = BootGUC[g]}

InitWith(configs) ==
    /\ pg_plan_watch \in configs
    /\ nesting_level = 0
    /\ \E h \in PriorHooks :
         /\ prev_ExecutorStart = h[1]
         /\ prev_ExecutorRun = h[2]
         /\ prev_ExecutorFinish = h[3]
         /\ prev_ExecutorEnd = h[4]
    /\ queryDesc = [q \in QD |-> NoQueryDesc]
    /\ stack = <<>>
    /\ last = NoLast

(* ------------------------------ actions ------------------------------ *)

OnStack(q) == \E i \in 1..Len(stack) : stack[i].qd = q

\* SET pg_plan_watch.<g> = v, or a configuration reload.  It can happen
\* between statements and inside a running statement (a function body).
SetGUC(G) ==
    \E g \in G : \E v \in GUCDomain(g) :
      /\ pg_plan_watch[g] # v
      /\ pg_plan_watch' = [pg_plan_watch EXCEPT ![g] = v]
      /\ last' = NoLast
      /\ UNCHANGED <<nesting_level, hooks, queryDesc, stack>>

\* The engine builds a QueryDesc, in the first free slot: totaltime is
\* NULL, instrument_options is what the caller asked for.
CreateQueryDesc ==
    \E q \in QD : \E options \in EntryOptions :
      /\ queryDesc[q].state = "free"
      /\ \A p \in 1..(q - 1) : queryDesc[p].state # "free"
      /\ queryDesc' = [queryDesc EXCEPT ![q] =
            [NoQueryDesc EXCEPT
               !.state = "created", !.instrument_options = options]]
      /\ last' = NoLast
      /\ UNCHANGED <<pg_plan_watch, nesting_level, hooks, stack>>

\* The engine drops a QueryDesc whose plan was found invalid.
FreeQueryDesc ==
    \E q \in QD :
      /\ queryDesc[q].state = "invalid"
      /\ queryDesc' = [queryDesc EXCEPT ![q] = NoQueryDesc]
      /\ last' = NoLast
      /\ UNCHANGED <<pg_plan_watch, nesting_level, hooks, stack>>

\* explain_ExecutorStart(queryDesc, eflags).  The delegated handler returns
\* valid or invalid or raises; a prior module's handler may attach its own
\* totaltime, which it does as this hook does, once the plan is valid.
explain_ExecutorStart ==
    \E q \in QD : \E explain_only \in BOOLEAN :
    \E outcome \in {"valid", "invalid", "raise"} : \E attach \in BOOLEAN :
      /\ queryDesc[q].state = "created"
      /\ attach => (prev_ExecutorStart # "NULL" /\ outcome = "valid")
      /\ LET entry == queryDesc[q].instrument_options
             options == StartInstrumentOptions(entry, explain_only)
             calls == NextHandler(prev_ExecutorStart,
                          "prev_ExecutorStart", "standard_ExecutorStart")
             attached == IF attach THEN InstrAlloc("prev_ExecutorStart")
                         ELSE queryDesc[q].totaltime
             totaltime == StartTotaltimeAfter(outcome, attached)
             \* the descriptor as the hook leaves it
             desc == [state |-> IF outcome = "invalid"
                                THEN "invalid" ELSE "started",
                      instrument_options |-> options,
                      totaltime |-> totaltime,
                      enabled_at_start |-> EnabledAtStartEntry,
                      level_at_start |-> nesting_level]
         IN
           /\ queryDesc' = [queryDesc EXCEPT ![q] =
                IF outcome = "raise" THEN NoQueryDesc ELSE desc]
           /\ last' = [NoLast EXCEPT
                !.op = "ExecutorStart", !.qd = q, !.calls = calls,
                !.entry_level = nesting_level,
                !.explain_only = explain_only,
                !.seen = OptionsAtCall(entry, options),
                !.attached = attach,
                !.raised = outcome = "raise",
                !.steps = StartSteps(options # entry, calls,
                                     totaltime # attached),
                !.desc = IF outcome = "raise" THEN NoQueryDesc ELSE desc,
                !.gates = IF outcome = "valid"
                          THEN <<EnabledAtStartEntry, EnabledAfterStart>>
                          ELSE <<EnabledAtStartEntry>>,
                !.result = CASE outcome = "raise" -> "raise"
                             [] outcome = "invalid" -> "false"
                             [] OTHER -> "true"]
      /\ UNCHANGED <<pg_plan_watch, nesting_level, hooks, stack>>

\* A hook that decrements after the call instead of in PG_FINALLY.
LevelAtExitNoFinally(level, outcome) ==
    IF outcome = "raise" THEN level ELSE level - 1

\* nesting_level once the hook is left: PG_FINALLY runs the decrement
\* whether the delegated handler returned or raised.
LevelAtExit(level, outcome) == level - 1

\* A hook that catches the error of the delegated handler and returns.
ResultAtExitCaught(outcome) == "return"

\* PG_END_TRY: the hook returns when the delegated handler returned and
\* re-throws when it raised.
ResultAtExit(outcome) == outcome

\* A hook that keeps a flag instead of a depth.
LevelAtCallFlag(level) == 1

\* nesting_level++ before the delegated call.
LevelAtCall(level) == level + 1

\* explain_ExecutorRun up to the point where the delegated handler is
\* running: nesting_level++, then the call.
explain_ExecutorRun_call ==
    \E q \in QD :
      /\ queryDesc[q].state = "started"
      /\ ~OnStack(q)
      /\ nesting_level' = LevelAtCall(nesting_level)
      /\ stack' = Append(stack,
            [op |-> "ExecutorRun", qd |-> q, entry_level |-> nesting_level,
             calls |-> NextHandler(prev_ExecutorRun,
                          "prev_ExecutorRun", "standard_ExecutorRun")])
      /\ last' = NoLast
      /\ UNCHANGED <<pg_plan_watch, hooks, queryDesc>>

\* The delegated Run handler returns or raises; PG_FINALLY, then the hook
\* returns or re-throws.  A raise aborts the statement.
explain_ExecutorRun_exit ==
    \E outcome \in {"return", "raise"} : \E dt \in 0..MaxTotal :
      /\ stack # <<>>
      /\ LET f == stack[Len(stack)] IN
           /\ f.op = "ExecutorRun"
           /\ outcome = "raise" => dt = 0
           /\ nesting_level' = LevelAtExit(nesting_level, outcome)
           /\ queryDesc' = [queryDesc EXCEPT ![f.qd] =
                IF outcome = "raise" THEN NoQueryDesc
                ELSE [@ EXCEPT !.totaltime = InstrStopNode(@, dt)]]
           /\ last' = [NoLast EXCEPT
                !.op = f.op, !.qd = f.qd, !.calls = f.calls,
                !.entry_level = f.entry_level,
                !.raised = outcome = "raise",
                !.result = ResultAtExit(outcome)]
      /\ stack' = SubSeq(stack, 1, Len(stack) - 1)
      /\ UNCHANGED <<pg_plan_watch, hooks>>

\* explain_ExecutorFinish up to the delegated call.
explain_ExecutorFinish_call ==
    \E q \in QD :
      /\ queryDesc[q].state = "started"
      /\ ~OnStack(q)
      /\ nesting_level' = LevelAtCall(nesting_level)
      /\ stack' = Append(stack,
            [op |-> "ExecutorFinish", qd |-> q,
             entry_level |-> nesting_level,
             calls |-> NextHandler(prev_ExecutorFinish,
                          "prev_ExecutorFinish", "standard_ExecutorFinish")])
      /\ last' = NoLast
      /\ UNCHANGED <<pg_plan_watch, hooks, queryDesc>>

\* The delegated Finish handler returns or raises; PG_FINALLY.
explain_ExecutorFinish_exit ==
    \E outcome \in {"return", "raise"} :
      /\ stack # <<>>
      /\ LET f == stack[Len(stack)] IN
           /\ f.op = "ExecutorFinish"
           /\ nesting_level' = LevelAtExit(nesting_level, outcome)
           /\ queryDesc' = [queryDesc EXCEPT ![f.qd] =
                IF outcome = "raise" THEN NoQueryDesc ELSE @]
           /\ last' = [NoLast EXCEPT
                !.op = f.op, !.qd = f.qd, !.calls = f.calls,
                !.entry_level = f.entry_level,
                !.raised = outcome = "raise",
                !.result = ResultAtExit(outcome)]
      /\ stack' = SubSeq(stack, 1, Len(stack) - 1)
      /\ UNCHANGED <<pg_plan_watch, hooks>>

\* An End hook that reads the accumulator of the outermost statement in
\* progress, as if there were one accumulator per backend.
EndTotaltimeOutermost(q) ==
    IF stack # <<>> THEN queryDesc[stack[1].qd].totaltime
    ELSE queryDesc[q].totaltime

\* The accumulator the End hook reads: queryDesc->totaltime.
EndTotaltime(q) == queryDesc[q].totaltime

\* explain_ExecutorEnd(queryDesc), the renderer leaving one of texts in
\* es->str.  Any call of the report block may raise (fail names it, 0 is
\* none); the error leaves the hook at once.  A write outside the buffer
\* has one of the UndefinedOutcomes.  The engine frees the descriptor
\* after ExecutorEnd, and on an error.
explain_ExecutorEndOn(texts) ==
    \E q \in QD : \E outcome \in {"return", "raise"} :
      /\ queryDesc[q].state \in {"started", "invalid"}
      /\ ~OnStack(q)
      /\ LET totaltime == EndTotaltime(q)
             reports == EndReports(totaltime)
             es == ExplainStateOf(queryDesc[q].instrument_options)
             steps == IF reports THEN ReportSteps(es) ELSE <<>>
         IN \E fail \in 0..Len(steps) :
            \E text \in (IF reports /\ fail = 0 THEN texts ELSE {<<>>}) :
            LET str == PostProcess(text, es.format)
                defined == \A i \in str.touched : InBuffer(i, Len(text))
            IN
            \E ub \in (IF reports /\ fail = 0 /\ ~defined
                       THEN UndefinedOutcomes ELSE {"defined"}) :
              /\ fail > 0 => /\ outcome = "raise"
                             /\ steps[fail] \notin PostProcessing
              /\ ub = "crash" => outcome = "raise"
              /\ last' =
                   CASE fail > 0 ->
                        [NoLast EXCEPT
                           !.op = "ExecutorEnd", !.qd = q,
                           !.entry_level = nesting_level,
                           !.result = "raise",
                           !.gates = <<EnabledAtEnd>>,
                           !.steps = SubSeq(steps, 1, fail)]
                     [] ub = "crash" ->
                        [NoLast EXCEPT
                           !.op = "ExecutorEnd", !.qd = q,
                           !.entry_level = nesting_level,
                           !.result = "crash",
                           !.gates = <<EnabledAtEnd>>,
                           !.steps = SubSeq(steps, 1, Len(steps) - 1),
                           !.rendered = text,
                           !.touched = str.touched]
                     [] OTHER ->
                        [NoLast EXCEPT
                           !.op = "ExecutorEnd", !.qd = q,
                           !.entry_level = nesting_level,
                           !.desc = [queryDesc[q] EXCEPT
                               !.totaltime = IF reports
                                             THEN InstrEndLoop(totaltime)
                                             ELSE totaltime],
                           !.result = outcome,
                           !.gates = <<EnabledAtEnd>>,
                           !.steps = steps,
                           !.rendered = IF reports THEN text ELSE <<>>,
                           !.touched = IF reports THEN str.touched ELSE {},
                           !.msgs = IF reports
                                    THEN <<Report(InstrEndLoop(totaltime),
                                             es, EmittedText(str, ub))>>
                                    ELSE <<>>,
                           !.calls = NextHandler(prev_ExecutorEnd,
                               "prev_ExecutorEnd", "standard_ExecutorEnd")]
      /\ queryDesc' = [queryDesc EXCEPT ![q] = NoQueryDesc]
      /\ UNCHANGED <<pg_plan_watch, nesting_level, hooks, stack>>

\* The End hook of a backend whose renderer produces one plan line.
explain_ExecutorEnd == explain_ExecutorEndOn({PlainText})

(* --------------------------- specifications -------------------------- *)

\* The GUCs the gate reads.
GateGUCs == {"log_min_duration", "log_nested_statements"}

\* A backend whose session sets the gate's GUCs and leaves the other GUCs
\* at their boot values.
Init == InitWith(Configured(GateGUCs))

Next ==
    \/ SetGUC(GateGUCs)
    \/ CreateQueryDesc
    \/ FreeQueryDesc
    \/ explain_ExecutorStart
    \/ explain_ExecutorRun_call
    \/ explain_ExecutorRun_exit
    \/ explain_ExecutorFinish_call
    \/ explain_ExecutorFinish_exit
    \/ explain_ExecutorEnd

Spec == Init /\ [][Next]_vars

\* A backend whose threshold stays at the disabled sentinel while the
\* session sets the other GUCs the gate and the Start hook read; log_format
\* and log_triggers, which only the report block reads, keep their boot
\* values.
OtherGUCs ==
    {"log_nested_statements", "log_analyze", "log_timing", "log_buffers",
     "log_wal"}

InitDisabled == InitWith(Configured(OtherGUCs))

NextDisabled ==
    \/ SetGUC(OtherGUCs)
    \/ CreateQueryDesc
    \/ FreeQueryDesc
    \/ explain_ExecutorStart
    \/ explain_ExecutorRun_call
    \/ explain_ExecutorRun_exit
    \/ explain_ExecutorFinish_call
    \/ explain_ExecutorFinish_exit
    \/ explain_ExecutorEnd

SpecDisabled == InitDisabled /\ [][NextDisabled]_vars

\* A backend in which no GUC changes after _PG_init.
NextNoSet ==
    \/ CreateQueryDesc
    \/ FreeQueryDesc
    \/ explain_ExecutorStart
    \/ explain_ExecutorRun_call
    \/ explain_ExecutorRun_exit
    \/ explain_ExecutorFinish_call
    \/ explain_ExecutorFinish_exit
    \/ explain_ExecutorEnd

SpecNoSet == Init /\ [][NextNoSet]_vars

\* A backend with log_analyze off and the threshold at 0 whose session
\* sets log_buffers, log_wal and log_triggers.
SubFlags == {"log_buffers", "log_wal", "log_triggers"}

InitSubFlags ==
    InitWith({c \in AllGUC :
                /\ \A g \in GUCNames \ (SubFlags \cup {"log_min_duration"}) :
                      c[g] = BootGUC[g]
                /\ c.log_min_duration = 0})

NextSubFlags ==
    \/ SetGUC(SubFlags)
    \/ CreateQueryDesc
    \/ FreeQueryDesc
    \/ explain_ExecutorStart
    \/ explain_ExecutorRun_call
    \/ explain_ExecutorRun_exit
    \/ explain_ExecutorFinish_call
    \/ explain_ExecutorFinish_exit
    \/ explain_ExecutorEnd

SpecSubFlags == InitSubFlags /\ [][NextSubFlags]_vars

\* A backend with the threshold at 0 and log_format at TEXT or JSON (the
\* hook treats XML and YAML as it treats TEXT), no GUC changing after
\* _PG_init, whose renderer leaves any of the RenderedTexts in es->str.
InitReport ==
    InitWith({c \in AllGUC :
                /\ \A g \in GUCNames \ {"log_format", "log_min_duration"} :
                      c[g] = BootGUC[g]
                /\ c.log_min_duration = 0
                /\ c.log_format \in
                     {"EXPLAIN_FORMAT_TEXT", "EXPLAIN_FORMAT_JSON"}})

NextReport ==
    \/ CreateQueryDesc
    \/ FreeQueryDesc
    \/ explain_ExecutorStart
    \/ explain_ExecutorRun_call
    \/ explain_ExecutorRun_exit
    \/ explain_ExecutorFinish_call
    \/ explain_ExecutorFinish_exit
    \/ explain_ExecutorEndOn(RenderedTexts)

SpecReport == InitReport /\ [][NextReport]_vars

\* A backend with the threshold at 0 and the GUCs the |= block of the
\* Start hook reads at any value, no GUC changing after _PG_init.
CollectGUCs == {"log_analyze", "log_timing", "log_buffers", "log_wal"}

InitCollect ==
    InitWith({c \in AllGUC :
                /\ \A g \in GUCNames \ (CollectGUCs \cup {"log_min_duration"}) :
                      c[g] = BootGUC[g]
                /\ c.log_min_duration = 0})

NextCollect ==
    \/ CreateQueryDesc
    \/ FreeQueryDesc
    \/ explain_ExecutorStart
    \/ explain_ExecutorRun_call
    \/ explain_ExecutorRun_exit
    \/ explain_ExecutorFinish_call
    \/ explain_ExecutorFinish_exit
    \/ explain_ExecutorEnd

SpecCollect == InitCollect /\ [][NextCollect]_vars

\* A backend with the threshold at 0, log_analyze and log_triggers at any
\* value and log_format at TEXT or JSON, no GUC changing after _PG_init.
InitOrder ==
    InitWith({c \in AllGUC :
                /\ \A g \in GUCNames \ {"log_analyze", "log_triggers",
                                         "log_format", "log_min_duration"} :
                      c[g] = BootGUC[g]
                /\ c.log_min_duration = 0
                /\ c.log_format \in
                     {"EXPLAIN_FORMAT_TEXT", "EXPLAIN_FORMAT_JSON"}})

NextOrder ==
    \/ CreateQueryDesc
    \/ FreeQueryDesc
    \/ explain_ExecutorStart
    \/ explain_ExecutorRun_call
    \/ explain_ExecutorRun_exit
    \/ explain_ExecutorFinish_call
    \/ explain_ExecutorFinish_exit
    \/ explain_ExecutorEnd

SpecOrder == InitOrder /\ [][NextOrder]_vars

(* ------------------------------ claims ------------------------------- *)

RunOrFinish == {"ExecutorRun", "ExecutorFinish"}

\* C1: when a Run or Finish hook invocation has just returned or raised,
\* nesting_level equals the value it had when the invocation was entered,
\* whatever was nested inside it and whether or not the delegated handler
\* raised.
C1_BracketSymmetry ==
    last.op \in RunOrFinish => nesting_level = last.entry_level

\* A Run hook nested inside another bracket has just re-thrown the error
\* of its delegated handler.
C1_Witness ==
    /\ last.op = "ExecutorRun"
    /\ last.result = "raise"
    /\ last.entry_level = 1
    /\ stack # <<>>

\* The handler the slot of a phase makes the hook call.
Expected(prev, prevName, standardName) ==
    IF prev = "NULL" THEN standardName ELSE prevName

ExpectedHandler ==
    CASE last.op = "ExecutorStart" ->
           Expected(prev_ExecutorStart,
                    "prev_ExecutorStart", "standard_ExecutorStart")
      [] last.op = "ExecutorRun" ->
           Expected(prev_ExecutorRun,
                    "prev_ExecutorRun", "standard_ExecutorRun")
      [] last.op = "ExecutorFinish" ->
           Expected(prev_ExecutorFinish,
                    "prev_ExecutorFinish", "standard_ExecutorFinish")
      [] OTHER ->
           Expected(prev_ExecutorEnd,
                    "prev_ExecutorEnd", "standard_ExecutorEnd")

\* C2: a hook invocation that returned normally called exactly one
\* handler, once: the saved one when the slot held one at _PG_init, the
\* engine's built-in one otherwise.
C2_DelegatesOnce ==
    (last.op # "none" /\ last.result \in {"true", "false", "return"})
        => last.calls = <<ExpectedHandler>>

\* The End hook has emitted a report and returned, with a saved End
\* handler and no saved Run handler in the chain.
C2_Witness ==
    /\ last.op = "ExecutorEnd"
    /\ last.result = "return"
    /\ last.msgs # <<>>
    /\ prev_ExecutorEnd = "prior"
    /\ prev_ExecutorRun = "NULL"

\* C3: an End hook invocation that raised has still called the next End
\* handler once.
C3_EndDelegatesOnFailure ==
    (last.op = "ExecutorEnd" /\ last.result = "raise")
        => Len(last.calls) = 1

\* The step is an invocation of the Start hook on descriptor q.
StartStep(q) ==
    /\ queryDesc[q].state = "created"
    /\ last'.op = "ExecutorStart"
    /\ last'.qd = q

\* The step is an invocation of the End hook on descriptor q.
EndStep(q) ==
    /\ queryDesc[q].state \in {"started", "invalid"}
    /\ last'.op = "ExecutorEnd"
    /\ last'.qd = q

\* C4: with log_min_duration at the disabled sentinel, at any nesting
\* level and for any value of the other GUCs, a Start hook invocation
\* allocates no accumulator and leaves instrument_options as it found it,
\* and an End hook invocation emits no message.
C4_DisabledIsInert ==
    [][pg_plan_watch.log_min_duration < 0 =>
         \A q \in QD :
           /\ StartStep(q) =>
                /\ last'.desc.totaltime.alloc # "explain_ExecutorStart"
                /\ queryDesc'[q].totaltime.alloc # "explain_ExecutorStart"
                /\ last'.result # "raise" =>
                     queryDesc'[q].instrument_options =
                       queryDesc[q].instrument_options
           /\ EndStep(q) => (last'.msgs = <<>> /\ last'.steps = <<>>)]_vars

\* Threshold disabled, log_analyze and log_nested_statements on: the End
\* hook has just run at nesting level 1 on a descriptor that carries an
\* accumulator, and stayed silent.
C4_Witness ==
    /\ pg_plan_watch.log_min_duration < 0
    /\ pg_plan_watch.log_analyze
    /\ pg_plan_watch.log_nested_statements
    /\ last.op = "ExecutorEnd"
    /\ last.entry_level = 1
    /\ last.desc.totaltime # NULL
    /\ last.msgs = <<>>

\* C5: with log_nested_statements off, an End hook invocation made at
\* nesting level >= 1 emits no report, whatever the threshold and the
\* elapsed time of the statement.
C5_NestedSilent ==
    (/\ last.op = "ExecutorEnd"
     /\ ~pg_plan_watch.log_nested_statements
     /\ nesting_level >= 1)
        => last.msgs = <<>>

\* Threshold 0, log_nested_statements off: the End hook has just run at
\* level 1 on a statement started at level 1 whose accumulator holds
\* elapsed time, and stayed silent.
C5_Witness ==
    /\ last.op = "ExecutorEnd"
    /\ ~pg_plan_watch.log_nested_statements
    /\ pg_plan_watch.log_min_duration = 0
    /\ nesting_level = 1
    /\ last.desc.level_at_start = 1
    /\ last.desc.totaltime # NULL
    /\ last.desc.totaltime.counter = MaxTotal
    /\ last.msgs = <<>>

\* C6: with log_nested_statements on and threshold 0, the End hook of a
\* statement started valid at nesting level 1 under an enabled gate and
\* ended at level 1 emits, when its report block raises nothing, exactly
\* one report, and the duration in it is the elapsed time of that
\* statement's own accumulator.
C6_NestedReportsOwnTime ==
    [][\A q \in QD :
         (/\ EndStep(q)
          /\ last'.calls # <<>>
          /\ pg_plan_watch.log_nested_statements
          /\ pg_plan_watch.log_min_duration = 0
          /\ nesting_level = 1
          /\ queryDesc[q].state = "started"
          /\ queryDesc[q].enabled_at_start
          /\ queryDesc[q].level_at_start = 1)
            => /\ Len(last'.msgs) = 1
               /\ last'.msgs[1].duration =
                    queryDesc[q].totaltime.total
                      + queryDesc[q].totaltime.counter]_vars

\* A nested statement that took no time has just been reported with
\* duration 0 while the statement around it holds elapsed time.
C6_Witness ==
    /\ last.op = "ExecutorEnd"
    /\ pg_plan_watch.log_nested_statements
    /\ pg_plan_watch.log_min_duration = 0
    /\ nesting_level = 1
    /\ last.desc.state = "started"
    /\ last.desc.enabled_at_start
    /\ last.desc.level_at_start = 1
    /\ Len(last.msgs) = 1
    /\ last.msgs[1].duration = 0
    /\ queryDesc[stack[1].qd].totaltime.counter = MaxTotal

\* C7: a report is emitted only for an elapsed time of at least
\* log_min_duration.
C7_ThresholdRespected ==
    (last.op = "ExecutorEnd" /\ last.msgs # <<>>)
        => last.msgs[1].duration >= pg_plan_watch.log_min_duration

Started(q) == queryDesc[q].state \in {"started", "invalid"}

\* C8 as stated: between the Start hook's return and the End hook, a
\* descriptor carries an accumulator iff the gate was enabled at Start.
C8_AccumulatorIffGate ==
    \A q \in QD :
      Started(q) =>
        (queryDesc[q].totaltime # NULL <=> queryDesc[q].enabled_at_start)

\* C8 amended: between a valid return of the Start hook and the End hook,
\* a descriptor carries an accumulator iff the gate was enabled at Start
\* or the prior Start handler attached its own; the hook's own accumulator
\* is there only when the gate was enabled; after an invalid return the
\* hook has allocated none.
C8_AccumulatorIffGateOrPrior ==
    \A q \in QD :
      /\ queryDesc[q].state = "started" =>
           /\ queryDesc[q].totaltime # NULL <=>
                \/ queryDesc[q].enabled_at_start
                \/ queryDesc[q].totaltime.alloc = "prev_ExecutorStart"
           /\ queryDesc[q].totaltime.alloc = "explain_ExecutorStart"
                => queryDesc[q].enabled_at_start
      /\ queryDesc[q].state = "invalid" =>
           queryDesc[q].totaltime.alloc # "explain_ExecutorStart"

\* One descriptor started under a disabled gate carries the accumulator a
\* prior handler attached, another started under an enabled gate carries
\* the hook's own, and the gate has since been closed.
C8_Witness ==
    /\ \E q \in QD :
         /\ queryDesc[q].state = "started"
         /\ ~queryDesc[q].enabled_at_start
         /\ queryDesc[q].totaltime.alloc = "prev_ExecutorStart"
    /\ \E q \in QD :
         /\ queryDesc[q].state = "started"
         /\ queryDesc[q].enabled_at_start
         /\ queryDesc[q].totaltime.alloc = "explain_ExecutorStart"
    /\ ~pg_plan_watch_enabled

\* The gate as a function of its three inputs.
Gate(min_duration, nested_statements, level) ==
    min_duration >= 0 /\ (level = 0 \/ nested_statements)

\* C9: with no GUC change, every evaluation of the gate in a Start hook
\* invocation (before and after the delegated call) has the value the
\* threshold, log_nested_statements and the level at entry give, and the
\* End hook entered at the level the Start hook was entered at evaluates
\* the gate to the value it had at Start.
C9_GateAgrees ==
    [][\A q \in QD :
         /\ StartStep(q) =>
              \A i \in 1..Len(last'.gates) :
                last'.gates[i] =
                  Gate(pg_plan_watch.log_min_duration,
                       pg_plan_watch.log_nested_statements, nesting_level)
         /\ (EndStep(q) /\ queryDesc[q].level_at_start = nesting_level) =>
              last'.gates = <<queryDesc[q].enabled_at_start>>]_vars

\* A statement started at level 1 with the gate closed by
\* log_nested_statements has been ended at level 1, its accumulator (a
\* prior handler's) in place, the gate closed again.
C9_Witness ==
    /\ last.op = "ExecutorEnd"
    /\ last.entry_level = 1
    /\ last.desc.level_at_start = 1
    /\ ~last.desc.enabled_at_start
    /\ last.desc.totaltime # NULL
    /\ pg_plan_watch.log_min_duration >= 0
    /\ last.gates = <<FALSE>>

\* The ExplainState and the report calls of a run without log_analyze.
PlainExplainState ==
    [analyze |-> FALSE, buffers |-> FALSE, wal |-> FALSE,
     timing |-> FALSE, summary |-> FALSE, costs |-> TRUE,
     format |-> pg_plan_watch.log_format]

PlainSteps ==
    <<"InstrEndLoop", "NewExplainState", "ExplainBeginOutput",
      "ExplainQueryText", "ExplainQueryParameters", "ExplainPrintPlan",
      "ExplainPrintJITSummary", "ExplainEndOutput", "RemoveLastLineBreak",
      "ereport">>

IsPrefix(s, t) == Len(s) <= Len(t) /\ s = SubSeq(t, 1, Len(s))

\* C10: with log_analyze off, whatever log_buffers, log_wal and
\* log_triggers are, the Start hook leaves instrument_options as it found
\* it, the report is rendered with buffers and wal off under one and the
\* same ExplainState, and the End hook makes one and the same sequence of
\* calls, without ExplainPrintTriggers.
C10_SubFlagsInert ==
    [][~pg_plan_watch.log_analyze =>
         \A q \in QD :
           /\ (StartStep(q) /\ last'.result # "raise") =>
                queryDesc'[q].instrument_options =
                  queryDesc[q].instrument_options
           /\ EndStep(q) =>
                /\ IsPrefix(last'.steps, PlainSteps)
                /\ last'.calls # <<>> => last'.steps \in {<<>>, PlainSteps}
                /\ \A i \in 1..Len(last'.msgs) :
                     last'.msgs[i].es = PlainExplainState]_vars

\* log_analyze off, the three sub-flags on: a statement whose descriptor
\* has instrument_options set has just been reported.
C10_Witness ==
    /\ ~pg_plan_watch.log_analyze
    /\ pg_plan_watch.log_buffers
    /\ pg_plan_watch.log_wal
    /\ pg_plan_watch.log_triggers
    /\ last.op = "ExecutorEnd"
    /\ last.desc.instrument_options # {}
    /\ Len(last.msgs) = 1

\* The text without its last character when that is a line break, the
\* text itself otherwise.
WithoutLastLineBreak(text) ==
    IF text # <<>> /\ text[Len(text)] = LineBreak
    THEN SubSeq(text, 1, Len(text) - 1)
    ELSE text

\* The End hook has just emitted a report in JSON format.
JSONReport ==
    /\ last.op = "ExecutorEnd"
    /\ last.msgs # <<>>
    /\ last.msgs[1].es.format = "EXPLAIN_FORMAT_JSON"

\* The two writes land on the first and the last character of the
\* stripped text, and the emitted text is that text between braces.
BracesWritten ==
    LET n == Len(WithoutLastLineBreak(last.rendered))
        text == last.msgs[1].text
    IN /\ {0, n - 1} \subseteq last.touched
       /\ \A i \in last.touched : 0 <= i /\ i < Len(last.rendered)
       /\ Len(text) = n
       /\ text[1] = "{"
       /\ text[n] = "}"
       /\ \A i \in 2..(n - 1) : text[i] = last.rendered[i]

\* C11 as stated: in JSON format every non-empty rendered text is emitted
\* with '{' at position 0 and '}' at the last position of the stripped
\* text, and every index the post-processing touches is inside the text.
C11_BracesAnyNonEmpty ==
    (JSONReport /\ last.rendered # <<>>) => BracesWritten

\* C11 amended: the same for every rendered text that keeps at least two
\* characters once its trailing line break is stripped.
C11_BracesTwoOrMore ==
    (JSONReport /\ Len(WithoutLastLineBreak(last.rendered)) >= 2)
        => BracesWritten

\* A three-character text ending in a line break has been emitted in JSON
\* format as "{}".
C11_Witness ==
    /\ JSONReport
    /\ last.rendered = <<"x", "x", LineBreak>>
    /\ last.msgs[1].text = <<"{", "}">>

\* C12: the stripping step removes the last character of the rendered
\* text when it is a line break and nothing else (in formats other than
\* JSON the emitted text is the rendered text without that one character;
\* in JSON the emitted text has that length), and it touches no index
\* outside the rendered text, the empty text included.
C12_OneLineBreakStripped ==
    (last.op = "ExecutorEnd" /\ last.msgs # <<>>) =>
        LET es == last.msgs[1].es
            text == last.msgs[1].text
            json == es.format = "EXPLAIN_FORMAT_JSON"
            n == Len(WithoutLastLineBreak(last.rendered))
        IN /\ ~json => /\ text = WithoutLastLineBreak(last.rendered)
                       /\ \A i \in last.touched :
                            0 <= i /\ i < Len(last.rendered)
           /\ (json /\ n >= 1) => Len(text) = n
           /\ last.touched \ {0, n - 1} \subseteq
                {i \in {Len(last.rendered) - 1} : i >= 0}

\* In text format a text ending in two line breaks has been emitted with
\* one of them, and the empty text has been emitted as it is.
C12_Witness ==
    /\ last.op = "ExecutorEnd"
    /\ last.msgs # <<>>
    /\ last.msgs[1].es.format = "EXPLAIN_FORMAT_TEXT"
    /\ \/ /\ last.rendered = <<"x", LineBreak, LineBreak>>
          /\ last.msgs[1].text = <<"x", LineBreak>>
       \/ /\ last.rendered = <<>>
          /\ last.msgs[1].text = <<>>

\* C13: what the End hook does for an execution follows the GUC values
\* its Start hook read: at the nesting level the execution was started
\* at, a report is rendered exactly when the gate was enabled at Start and
\* the descriptor carries an accumulator, whatever was SET in between.
C13_OneSnapshot ==
    [][\A q \in QD :
         (/\ EndStep(q)
          /\ queryDesc[q].state = "started"
          /\ queryDesc[q].level_at_start = nesting_level)
            => (last'.steps # <<>> <=>
                  /\ queryDesc[q].enabled_at_start
                  /\ queryDesc[q].totaltime # NULL)]_vars

StepsOf(l) == {l.steps[i] : i \in 1..Len(l.steps)}

\* C15: in a Start hook invocation the delegated handler finds the
\* counter categories already set on instrument_options; InstrAlloc comes
\* after that call and happens exactly when the call returned valid, the
\* gate is enabled and the handler left no accumulator; an accumulator the
\* handler attached is the one the descriptor keeps.
C15_StartOrder ==
    [][\A q \in QD :
         StartStep(q) =>
           LET l == last'
               n == Len(l.steps)
               marks == /\ pg_plan_watch_enabled
                        /\ pg_plan_watch.log_analyze
                        /\ ~l.explain_only
           IN /\ queryDesc[q].instrument_options \subseteq l.seen
              /\ marks => /\ l.seen \cap {INSTRUMENT_TIMER,
                                           INSTRUMENT_ROWS} # {}
                          /\ l.steps[1] = "instrument_options |="
                          /\ l.steps[2] = l.calls[1]
              /\ ~l.raised => l.seen = queryDesc'[q].instrument_options
              /\ "InstrAlloc" \in StepsOf(l) <=>
                   /\ l.result = "true"
                   /\ pg_plan_watch_enabled
                   /\ ~l.attached
              /\ "InstrAlloc" \in StepsOf(l) =>
                   /\ n >= 2
                   /\ l.steps[n] = "InstrAlloc"
                   /\ l.steps[n - 1] = l.calls[1]
                   /\ queryDesc'[q].totaltime =
                        InstrAlloc("explain_ExecutorStart")
              /\ l.attached =>
                   queryDesc'[q].totaltime = InstrAlloc("prev_ExecutorStart")
         ]_vars

\* With log_analyze on and the gate enabled, a prior Start handler found
\* the timer category set, attached its accumulator and returned valid,
\* and the descriptor carries that accumulator.
C15_Witness ==
    /\ last.op = "ExecutorStart"
    /\ last.result = "true"
    /\ last.gates = <<TRUE, TRUE>>
    /\ pg_plan_watch.log_analyze
    /\ INSTRUMENT_TIMER \in last.seen
    /\ last.attached
    /\ queryDesc[last.qd].totaltime = InstrAlloc("prev_ExecutorStart")
    /\ last.steps = <<"instrument_options |=", "prev_ExecutorStart">>

\* The counter categories the collection GUCs ask for.
Categories ==
    {c \in {INSTRUMENT_TIMER} : pg_plan_watch.log_timing}
    \cup {c \in {INSTRUMENT_ROWS} : ~pg_plan_watch.log_timing}
    \cup {c \in {INSTRUMENT_BUFFERS} : pg_plan_watch.log_buffers}
    \cup {c \in {INSTRUMENT_WAL} : pg_plan_watch.log_wal}

\* C16 as stated: a Start hook invocation under an enabled gate with
\* log_analyze on leaves on instrument_options the bits it found plus
\* exactly the Categories; under a disabled gate or with log_analyze off
\* it leaves instrument_options as it found it.
C16_CategoriesAdded ==
    [][\A q \in QD :
         (StartStep(q) /\ ~last'.raised) =>
           queryDesc'[q].instrument_options =
             IF pg_plan_watch_enabled /\ pg_plan_watch.log_analyze
             THEN queryDesc[q].instrument_options \cup Categories
             ELSE queryDesc[q].instrument_options]_vars

\* C16 amended: the same when eflags lacks EXEC_FLAG_EXPLAIN_ONLY; with
\* that flag instrument_options is left as found.
C16_CategoriesAddedUnlessExplainOnly ==
    [][\A q \in QD :
         (StartStep(q) /\ ~last'.raised) =>
           queryDesc'[q].instrument_options =
             IF /\ pg_plan_watch_enabled
                /\ pg_plan_watch.log_analyze
                /\ ~last'.explain_only
             THEN queryDesc[q].instrument_options \cup Categories
             ELSE queryDesc[q].instrument_options]_vars

\* With log_analyze and log_wal on, log_timing and log_buffers off, a
\* descriptor created with the buffer category has been started under an
\* enabled gate and carries the row-count, buffer and write-log categories
\* and no timer.
C16_Witness ==
    /\ last.op = "ExecutorStart"
    /\ ~last.raised
    /\ ~last.explain_only
    /\ last.gates[1]
    /\ pg_plan_watch.log_analyze
    /\ pg_plan_watch.log_wal
    /\ ~pg_plan_watch.log_timing
    /\ ~pg_plan_watch.log_buffers
    /\ queryDesc[last.qd].instrument_options =
         {INSTRUMENT_ROWS, INSTRUMENT_BUFFERS, INSTRUMENT_WAL}

\* C20: a Start hook invocation whose eflags carry
\* EXEC_FLAG_EXPLAIN_ONLY hands the delegated handler, and leaves behind,
\* the instrument_options it found, whatever the gate and log_analyze
\* are; when the delegated handler returned valid and the gate is enabled
\* the descriptor still gets an accumulator, the hook's own unless the
\* handler attached one.
C20_ExplainOnlyCollectsNothing ==
    [][\A q \in QD :
         (StartStep(q) /\ last'.explain_only) =>
           /\ last'.seen = queryDesc[q].instrument_options
           /\ ~last'.raised =>
                queryDesc'[q].instrument_options =
                  queryDesc[q].instrument_options
           /\ (last'.result = "true" /\ pg_plan_watch_enabled) =>
                /\ queryDesc'[q].totaltime # NULL
                /\ ~last'.attached =>
                     queryDesc'[q].totaltime =
                       InstrAlloc("explain_ExecutorStart")]_vars

\* With log_analyze and log_buffers on, a descriptor created without
\* categories has been started explain-only under an enabled gate: it has
\* no category and carries the hook's accumulator.
C20_Witness ==
    /\ last.op = "ExecutorStart"
    /\ last.explain_only
    /\ last.result = "true"
    /\ last.gates = <<TRUE, TRUE>>
    /\ pg_plan_watch.log_analyze
    /\ pg_plan_watch.log_buffers
    /\ queryDesc[last.qd].instrument_options = {}
    /\ queryDesc[last.qd].totaltime = InstrAlloc("explain_ExecutorStart")

\* The steps of a report, in the order of the claim, for a descriptor
\* with the given instrument_options.
OrderedSteps(options) ==
    <<"InstrEndLoop", "NewExplainState", "ExplainBeginOutput",
      "ExplainQueryText", "ExplainQueryParameters", "ExplainPrintPlan">>
    \o (IF /\ options # {}
           /\ pg_plan_watch.log_analyze
           /\ pg_plan_watch.log_triggers
        THEN <<"ExplainPrintTriggers">> ELSE <<>>)
    \o <<"ExplainPrintJITSummary", "ExplainEndOutput",
         "RemoveLastLineBreak">>
    \o (IF pg_plan_watch.log_format = "EXPLAIN_FORMAT_JSON"
        THEN <<"FixJSON">> ELSE <<>>)
    \o <<"ereport">>

\* C17: the steps an End hook invocation takes are an initial part of
\* OrderedSteps (with NewExplainState between finalising the accumulator
\* and the envelope); when a report is emitted they are all of it, the
\* JIT summary going with es->costs, and the next End handler is called
\* only when all of them are done.
C17_ReportOrder ==
    [][\A q \in QD :
         EndStep(q) =>
           LET l == last'
               ordered == OrderedSteps(queryDesc[q].instrument_options)
           IN /\ IsPrefix(l.steps, ordered)
              /\ l.msgs # <<>> =>
                   /\ l.steps = ordered
                   /\ l.msgs[1].es.costs
                   /\ Len(l.calls) = 1
              /\ l.calls # <<>> => l.steps \in {<<>>, ordered}]_vars

\* With log_analyze and log_triggers on and JSON format, a statement that
\* collected statistics has been reported with trigger statistics and the
\* JSON fix, and the next End handler has been called.
C17_Witness ==
    /\ last.op = "ExecutorEnd"
    /\ Len(last.msgs) = 1
    /\ last.msgs[1].es.analyze
    /\ "ExplainPrintTriggers" \in StepsOf(last)
    /\ "FixJSON" \in StepsOf(last)
    /\ last.steps[Len(last.steps)] = "ereport"
    /\ last.calls # <<>>

\* C18: a Run or Finish hook invocation whose delegated handler raised
\* has raised to its caller, has called that handler once, and has left
\* nesting_level at the value it had at entry.
C18_FailurePropagates ==
    (last.op \in RunOrFinish /\ last.raised) =>
        /\ last.result = "raise"
        /\ Len(last.calls) = 1
        /\ nesting_level = last.entry_level

\* A Finish hook entered at level 0 has re-thrown the error of the prior
\* module's Finish handler.
C18_Witness ==
    /\ last.op = "ExecutorFinish"
    /\ last.raised
    /\ last.result = "raise"
    /\ last.calls = <<"prev_ExecutorFinish">>
    /\ last.entry_level = 0
    /\ nesting_level = 0

\* C19: nesting_level is never negative and equals the number of Run and
\* Finish hook invocations in progress (so it is 0 when there is none);
\* a Start or End hook invocation leaves it at the value it found.
C19_LevelCountsInvocations ==
    /\ nesting_level >= 0
    /\ nesting_level = Len(stack)
    /\ \A i \in 1..Len(stack) : stack[i].op \in RunOrFinish
    /\ stack = <<>> => nesting_level = 0
    /\ last.op \in {"ExecutorStart", "ExecutorEnd"} =>
         nesting_level = last.entry_level

\* A Run hook invocation inside a Finish hook invocation: two in progress,
\* nesting_level 2.
C19_Witness ==
    /\ Len(stack) = 2
    /\ stack[1].op = "ExecutorFinish"
    /\ stack[2].op = "ExecutorRun"
    /\ nesting_level = 2

=============================================================================
